---- MODULE Spec2Model ----
(***************************************************************************)
(* Model of CreateProperties.py: a CSV of property definitions is          *)
(* reconciled, row by row, into a remote CRM schema.  Strings are          *)
(* sequences of one-character strings so that strip(), lower(), re.sub()   *)
(* and replace() are computed character by character.                      *)
(***************************************************************************)
EXTENDS Integers, Sequences, FiniteSets, TLC

VARIABLES
    token,          \* the environment: whether HUBSPOT_ACCESS_TOKEN is set, and its value
    pc,             \* position of the program
    run,            \* 1 for the first execution of the script, 2 for the second
    rows,           \* the rows csv.DictReader yields, in file order
    cursor,         \* index of the row the for loop is at
    cur,            \* locals of the current iteration
    created,        \* process_csv: created
    skipped,        \* process_csv: skipped
    errors,         \* process_csv: errors
    group_checked,  \* process_csv: group_checked
    summary,        \* the summary lines logged after the loop
    remoteGroups,   \* remote schema: object types that have the group
    remoteProps,    \* remote schema: the properties, [obj, name, label]
    reqlog,         \* history: the HTTP requests of this run and their answers
    outcome,        \* history: the list each processed row was appended to
    prevOutcome,    \* history: outcome of the first run, kept for the second
    nIn,            \* normalizer harness: input string
    nOut,           \* normalizer harness: generate_api_property_name(nIn)
    nOut2,          \* normalizer harness: generate_api_property_name(nOut)
    nPc             \* normalizer harness: position

vars == <<token, pc, run, rows, cursor, cur, created, skipped, errors,
          group_checked, summary, remoteGroups, remoteProps, reqlog,
          outcome, prevOutcome, nIn, nOut, nOut2, nPc>>

reconcilerVars == <<token, pc, run, rows, cursor, cur, created, skipped, errors,
                    group_checked, summary, remoteGroups, remoteProps, reqlog,
                    outcome, prevOutcome>>

normVars == <<nIn, nOut, nOut2, nPc>>

(***************************************************************************)
(* Bounds.                                                                 *)
(***************************************************************************)
MaxRows == 3

MaxLen == 4

(***************************************************************************)
(* Character classes and Python string primitives.                         *)
(***************************************************************************)
UpperSeq ==
    <<"A", "B", "C", "D", "E", "F", "G", "H", "I", "J", "K", "L", "M",
      "N", "O", "P", "Q", "R", "S", "T", "U", "V", "W", "X", "Y", "Z">>

LowerSeq ==
    <<"a", "b", "c", "d", "e", "f", "g", "h", "i", "j", "k", "l", "m",
      "n", "o", "p", "q", "r", "s", "t", "u", "v", "w", "x", "y", "z">>

DigitSeq ==
    <<"0", "1", "2", "3", "4", "5", "6", "7", "8", "9">>

\* the letters above "z" that str.lower() changes, and what it makes of
\* them; a character of the model is a one-character string, so the
\* characters are those up to U+00FF
AccentedUpperSeq ==
    <<"À", "Á", "Â", "Ã", "Ä", "Å", "Æ", "Ç", "È", "É", "Ê", "Ë", "Ì",
      "Í", "Î", "Ï", "Ð", "Ñ", "Ò", "Ó", "Ô", "Õ", "Ö", "Ø", "Ù", "Ú",
      "Û", "Ü", "Ý", "Þ">>

AccentedLowerSeq ==
    <<"à", "á", "â", "ã", "ä", "å", "æ", "ç", "è", "é", "ê", "ë", "ì",
      "í", "î", "ï", "ð", "ñ", "ò", "ó", "ô", "õ", "ö", "ø", "ù", "ú",
      "û", "ü", "ý", "þ">>

\* what str.lower() changes, and into what
CasedUpperSeq == UpperSeq \o AccentedUpperSeq

CasedLowerSeq == LowerSeq \o AccentedLowerSeq

Range(s) == {s[i] : i \in DOMAIN s}

UpperChars == Range(UpperSeq)

LowerChars == Range(LowerSeq)

DigitChars == Range(DigitSeq)

\* the characters str.strip() removes from both ends, those of
\* str.isspace(): tab, line feed, vertical tab, form feed, carriage return,
\* the separators U+001C to U+001F, space, next line U+0085 and no-break
\* space U+00A0
Whitespace ==
    {"\t", "\n", "", "\f", "\r", "", "", "", "", " ",
     "", " "}

RECURSIVE LStrip(_)
LStrip(s) ==
    IF s = <<>> THEN <<>>
    ELSE IF Head(s) \in Whitespace THEN LStrip(Tail(s)) ELSE s

RECURSIVE RStrip(_)
RStrip(s) ==
    IF s = <<>> THEN <<>>
    ELSE IF s[Len(s)] \in Whitespace THEN RStrip(SubSeq(s, 1, Len(s) - 1)) ELSE s

\* str.strip()
Strip(s) == RStrip(LStrip(s))

LowerChar(c) ==
    IF c \in Range(CasedUpperSeq)
    THEN CasedLowerSeq[CHOOSE i \in DOMAIN CasedUpperSeq : CasedUpperSeq[i] = c]
    ELSE c

\* str.lower()
Lower(s) == [i \in DOMAIN s |-> LowerChar(s[i])]

\* str.replace(" ", "_")
ReplaceSpaces(s) == [i \in DOMAIN s |-> IF s[i] = " " THEN "_" ELSE s[i]]

\* the class [A-Za-z0-9 ] of the regular expression
KeptByRegex(c) == c \in UpperChars \cup LowerChars \cup DigitChars \cup {" "}

\* re.sub(r'[^A-Za-z0-9 ]+', '', s)
RemoveOthers(s) == SelectSeq(s, KeptByRegex)

\* a plausible slip: the result is not lowercased
generate_api_property_name_nolower(original_name) ==
    ReplaceSpaces(Strip(RemoveOthers(original_name)))

generate_api_property_name(original_name) ==
    ReplaceSpaces(Lower(Strip(RemoveOthers(original_name))))

(***************************************************************************)
(* The fixed tables and constants of the script.                           *)
(***************************************************************************)
K_Text ==
    <<"T", "e", "x", "t">>

K_Single_line_Text ==
    <<"S", "i", "n", "g", "l", "e", "-", "l", "i", "n", "e", " ", "T", "e", "x", "t">>

K_Multi_line_Text ==
    <<"M", "u", "l", "t", "i", "-", "l", "i", "n", "e", " ", "T", "e", "x", "t">>

K_Number ==
    <<"N", "u", "m", "b", "e", "r">>

K_Currency_Number ==
    <<"C", "u", "r", "r", "e", "n", "c", "y", " ", "N", "u", "m", "b", "e", "r">>

K_Dropdown ==
    <<"D", "r", "o", "p", "d", "o", "w", "n">>

K_Multiple_Checkboxes ==
    <<"M", "u", "l", "t", "i", "p", "l", "e", " ", "C", "h", "e", "c", "k", "b", "o", "x", "e", "s">>

K_Unformatted_Number ==
    <<"U", "n", "f", "o", "r", "m", "a", "t", "t", "e", "d", " ", "N", "u", "m", "b", "e", "r">>

K_Single_Checkbox ==
    <<"S", "i", "n", "g", "l", "e", " ", "C", "h", "e", "c", "k", "b", "o", "x">>

K_HubSpot_User ==
    <<"H", "u", "b", "S", "p", "o", "t", " ", "U", "s", "e", "r">>

K_Date_Picker ==
    <<"D", "a", "t", "e", " ", "P", "i", "c", "k", "e", "r">>

\* a plausible slip: Multi-line Text is given the field type of Text
TYPE_MAPPING_textarea_slip ==
       (K_Text :> [type |-> "string", fieldType |-> "text"])
    @@ (K_Single_line_Text :> [type |-> "string", fieldType |-> "text"])
    @@ (K_Multi_line_Text :> [type |-> "string", fieldType |-> "text"])
    @@ (K_Number :> [type |-> "number", fieldType |-> "number"])
    @@ (K_Currency_Number :> [type |-> "number", fieldType |-> "number"])
    @@ (K_Dropdown :> [type |-> "enumeration", fieldType |-> "select"])
    @@ (K_Multiple_Checkboxes :> [type |-> "enumeration", fieldType |-> "select", multiple |-> TRUE])
    @@ (K_Unformatted_Number :> [type |-> "number", fieldType |-> "number"])
    @@ (K_Single_Checkbox :> [type |-> "bool", fieldType |-> "booleancheckbox"])
    @@ (K_HubSpot_User :> [type |-> "string", fieldType |-> "text"])
    @@ (K_Date_Picker :> [type |-> "date", fieldType |-> "date"])

TYPE_MAPPING ==
       (K_Text :> [type |-> "string", fieldType |-> "text"])
    @@ (K_Single_line_Text :> [type |-> "string", fieldType |-> "text"])
    @@ (K_Multi_line_Text :> [type |-> "string", fieldType |-> "textarea"])
    @@ (K_Number :> [type |-> "number", fieldType |-> "number"])
    @@ (K_Currency_Number :> [type |-> "number", fieldType |-> "number"])
    @@ (K_Dropdown :> [type |-> "enumeration", fieldType |-> "select"])
    @@ (K_Multiple_Checkboxes :> [type |-> "enumeration", fieldType |-> "select", multiple |-> TRUE])
    @@ (K_Unformatted_Number :> [type |-> "number", fieldType |-> "number"])
    @@ (K_Single_Checkbox :> [type |-> "bool", fieldType |-> "booleancheckbox"])
    @@ (K_HubSpot_User :> [type |-> "string", fieldType |-> "text"])
    @@ (K_Date_Picker :> [type |-> "date", fieldType |-> "date"])

S_Contact ==
    <<"C", "o", "n", "t", "a", "c", "t">>

S_Company ==
    <<"C", "o", "m", "p", "a", "n", "y">>

S_Deal ==
    <<"D", "e", "a", "l">>

S_contacts ==
    <<"c", "o", "n", "t", "a", "c", "t", "s">>

S_companies ==
    <<"c", "o", "m", "p", "a", "n", "i", "e", "s">>

S_deals ==
    <<"d", "e", "a", "l", "s">>

OBJECT_TYPE_MAPPING ==
       (S_Contact :> S_contacts)
    @@ (S_Company :> S_companies)
    @@ (S_Deal :> S_deals)

\* a plausible slip: the properties are filed under a stock group
GROUP_ID_stock_group == "contactinformation"

GROUP_ID == "api_imported_properties"

GROUP_DISPLAY_NAME == "ATI Seminars Properties - API"

NON_UNIQUE_PROPERTY_LABEL == "PropertyValidationError.NON_UNIQUE_PROPERTY_LABEL"

\* the option-bearing types of line 202
OPTION_TYPES == {K_Dropdown, K_Multiple_Checkboxes, K_Single_Checkbox}

(***************************************************************************)
(* Pieces of process_csv that compute without touching the network.        *)
(***************************************************************************)
\* a plausible slip: an unmapped name resolves to nothing
resolve_object_type_strict(object_type_raw) ==
    IF object_type_raw \in DOMAIN OBJECT_TYPE_MAPPING
    THEN OBJECT_TYPE_MAPPING[object_type_raw]
    ELSE <<>>

\* OBJECT_TYPE_MAPPING.get(object_type_raw, object_type_raw)
resolve_object_type(object_type_raw) ==
    IF object_type_raw \in DOMAIN OBJECT_TYPE_MAPPING
    THEN OBJECT_TYPE_MAPPING[object_type_raw]
    ELSE object_type_raw

\* a plausible slip: a cached False is tried again
needs_group_check_retry(gc, object_type_api) ==
    \/ object_type_api \notin DOMAIN gc
    \/ ~gc[object_type_api]

\* object_type_api not in group_checked
needs_group_check(gc, object_type_api) ==
    object_type_api \notin DOMAIN gc

\* a plausible slip: the cached state is not consulted
group_blocked_never(gc, object_type_api) == FALSE

\* not group_checked[object_type_api]
group_blocked(gc, object_type_api) ==
    ~gc[object_type_api]

\* str.split(","): the pieces between the commas, empty pieces included
RECURSIVE SplitComma(_, _)
SplitComma(s, acc) ==
    IF s = <<>> THEN <<acc>>
    ELSE IF Head(s) = "," THEN <<acc>> \o SplitComma(Tail(s), <<>>)
    ELSE SplitComma(Tail(s), Append(acc, Head(s)))

IsNonEmpty(s) == s # <<>>

\* a plausible slip: the empty pieces are not dropped
options_list_keep_empty(prop_options_raw) ==
    LET pieces == SplitComma(prop_options_raw, <<>>)
    IN  [i \in DOMAIN pieces |-> Strip(pieces[i])]

\* [opt.strip() for opt in prop_options_raw.split(",") if opt.strip()]
options_list(prop_options_raw) ==
    LET pieces == SplitComma(prop_options_raw, <<>>)
        stripped == [i \in DOMAIN pieces |-> Strip(pieces[i])]
    IN  SelectSeq(stripped, IsNonEmpty)

\* {"label": opt, "value": opt.lower().replace(" ", "_")} for each option
build_options(prop_options_raw) ==
    LET opts == options_list(prop_options_raw)
    IN  [i \in DOMAIN opts |->
            [label |-> opts[i], value |-> ReplaceSpaces(Lower(opts[i]))]]

\* a plausible slip: the label is the generated name
build_payload_label_generated(original_prop_name, prop_type_raw, prop_options_raw) ==
    LET mapping == TYPE_MAPPING[prop_type_raw]
        base == [name |-> generate_api_property_name(original_prop_name),
                 label |-> generate_api_property_name(original_prop_name),
                 groupName |-> GROUP_ID,
                 type |-> mapping.type,
                 fieldType |-> mapping.fieldType]
        withMultiple ==
            IF "multiple" \in DOMAIN mapping /\ mapping.multiple
            THEN base @@ [multiple |-> TRUE]
            ELSE base
    IN  IF prop_type_raw \in OPTION_TYPES /\ prop_options_raw # <<>>
        THEN withMultiple @@ [options |-> build_options(prop_options_raw)]
        ELSE withMultiple

\* the payload of lines 191-208
build_payload(original_prop_name, prop_type_raw, prop_options_raw) ==
    LET mapping == TYPE_MAPPING[prop_type_raw]
        base == [name |-> generate_api_property_name(original_prop_name),
                 label |-> original_prop_name,
                 groupName |-> GROUP_ID,
                 type |-> mapping.type,
                 fieldType |-> mapping.fieldType]
        withMultiple ==
            IF "multiple" \in DOMAIN mapping /\ mapping.multiple
            THEN base @@ [multiple |-> TRUE]
            ELSE base
    IN  IF prop_type_raw \in OPTION_TYPES /\ prop_options_raw # <<>>
        THEN withMultiple @@ [options |-> build_options(prop_options_raw)]
        ELSE withMultiple

(***************************************************************************)
(* HTTP answers.  A call of the requests library either raises (raised)    *)
(* or returns a response with a status and a body.  fault marks an answer  *)
(* that does not follow from the remote schema: a server error, a          *)
(* throttled call, a dropped connection.                                   *)
(***************************************************************************)
Response(status, body, fault) ==
    [raised |-> FALSE, status |-> status, body |-> body, fault |-> fault]

Raised ==
    [raised |-> TRUE, status |-> 0, body |-> [json |-> FALSE], fault |-> TRUE]

NotJson == [json |-> FALSE]

Json(fields) == [json |-> TRUE] @@ fields

\* GET {BASE_URL}/{object_type_api}/groups
ListGroupsAnswers(object_type_api) ==
    { Response(200,
               Json([results |-> IF object_type_api \in remoteGroups
                                 THEN {"contactinformation", GROUP_ID}
                                 ELSE {"contactinformation"}]),
               FALSE),
      Response(200, NotJson, TRUE),
      Response(500, NotJson, TRUE),
      Raised }

\* POST {BASE_URL}/{object_type_api}/groups; a creation is acknowledged
\* with 201, or with 200 (here: by the deals endpoint)
CreateGroupAnswers(object_type_api) ==
    { Response(IF object_type_api = S_deals THEN 200 ELSE 201,
               Json([name |-> GROUP_ID]), FALSE),
      Response(500, NotJson, TRUE),
      Raised }

PropertyPresent(object_type_api, property_name) ==
    \E p \in remoteProps : p.obj = object_type_api /\ p.name = property_name

LabelPresent(object_type_api, label) ==
    \E p \in remoteProps : p.obj = object_type_api /\ p.label = label

\* GET on the resource a property URL names
GetPropertyAnswers(url) ==
    { IF PropertyPresent(url.obj, url.name)
      THEN Response(200, Json([name |-> url.name]), FALSE)
      ELSE Response(404, Json([category |-> "OBJECT_NOT_FOUND"]), FALSE),
      Response(500, NotJson, TRUE),
      Raised }

\* POST {BASE_URL}/{object_type_api}; a creation is acknowledged with 201,
\* or with 200 (here: by the deals endpoint), and the code accepts both
PostPropertyAnswers(object_type_api, payload) ==
    { IF PropertyPresent(object_type_api, payload.name)
      THEN Response(409, Json([category |-> "OBJECT_ALREADY_EXISTS"]), FALSE)
      ELSE IF LabelPresent(object_type_api, payload.label)
      THEN Response(400, Json([subCategory |-> NON_UNIQUE_PROPERTY_LABEL]), FALSE)
      ELSE Response(IF object_type_api = S_deals THEN 200 ELSE 201,
                    Json([name |-> payload.name]), FALSE),
      Response(400, Json([subCategory |-> "PropertyValidationError.INVALID_OPTION"]), TRUE),
      Response(429, Json([category |-> "RATE_LIMITS"]), TRUE),
      Response(500, NotJson, TRUE),
      Raised }

(***************************************************************************)
(* The Schema Client functions, as functions of the answers they receive.  *)
(***************************************************************************)
\* ensure_property_group sends the POST only when the listing answered 200
\* and no listed group carries the group id
SendsCreateGroup(listAnswer) ==
    /\ ~listAnswer.raised
    /\ listAnswer.status = 200
    /\ listAnswer.body.json
    /\ GROUP_ID \notin listAnswer.body.results

\* a plausible slip: the answer of the creation is not looked at
ensure_property_group_optimistic(listAnswer, createAnswer) ==
    ~(listAnswer.raised \/ listAnswer.status # 200 \/ ~listAnswer.body.json)

\* return value of ensure_property_group
ensure_property_group(listAnswer, createAnswer) ==
    IF listAnswer.raised \/ listAnswer.status # 200 \/ ~listAnswer.body.json
    THEN FALSE
    ELSE IF GROUP_ID \in listAnswer.body.results
    THEN TRUE
    ELSE ~createAnswer.raised /\ createAnswer.status \in {200, 201}

\* a plausible slip: the object type of the URL is hard-coded
property_url_contacts(object_type_api, property_name) ==
    [obj |-> S_contacts, name |-> property_name]

\* f"{BASE_URL}/{object_type_api}/{property_name}": the resource asked for
property_url(object_type_api, property_name) ==
    [obj |-> object_type_api, name |-> property_name]

\* a plausible slip: every status but 200 is read as "absent"
property_exists_binary(answer) ==
    IF answer.status = 200 THEN "True" ELSE "False"

\* return value of property_exists for an answer that was returned
property_exists(answer) ==
    IF answer.status = 200 THEN "True"
    ELSE IF answer.status = 404 THEN "False"
    ELSE "None"

\* a plausible slip: the duplicate-label body is not looked at
classify_create_response_nodup(response) ==
    IF response.status \in {200, 201} THEN "created" ELSE "errors"

\* lines 223-237: the list the row goes to after create_property returned
classify_create_response(response) ==
    IF response.status \in {200, 201} THEN "created"
    ELSE IF /\ response.body.json
            /\ "subCategory" \in DOMAIN response.body
            /\ response.body.subCategory = NON_UNIQUE_PROPERTY_LABEL
    THEN "skipped"
    ELSE "errors"

(***************************************************************************)
(* Inputs: the rows of the CSV file and the remote schema before the run.  *)
(***************************************************************************)
Row(name, type, opts, obj) ==
    [name |-> name, type |-> type, opts |-> opts, obj |-> obj]

N_A_b == <<"A", " ", "b">>

N_ab_padded == <<" ", "a", "b", " ">>

N_Ab_bang == <<"A", "b", "!">>

K_Bogus == <<"B", "o", "g", "u", "s">>

O_x_y == <<"x", ",", " ", "y", ",">>

RowText == Row(N_A_b, K_Text, <<>>, S_Contact)

RowDropdown == Row(N_ab_padded, K_Dropdown, O_x_y, S_contacts)

\* the object type comes with a vertical tab before and a no-break space
\* after it
RowDeal ==
    Row(N_Ab_bang, K_Multiple_Checkboxes, <<"x">>, <<"", " ">> \o S_Deal \o <<" ">>)

RowBadType == Row(N_A_b, K_Bogus, <<>>, S_Deal)

\* the object type is a space and a unit separator
RowNoObject == Row(N_Ab_bang, K_Text, <<>>, <<" ", "">>)

\* what csv.DictReader gives for a field the line is short of (restval);
\* no text equals it, a text being a sequence of one-character strings
None == <<"None">>

\* stands in a row for a key the row mapping does not have, the header of
\* the file being without that column
NoColumn == <<"KeyError">>

\* the line 'A b,Text'
RowShort == Row(N_A_b, K_Text, None, None)

RowPool == {RowText, RowDropdown, RowDeal, RowBadType, RowNoObject, RowShort}

\* the same lines under a header without the column "Object Type"
WithoutObjectTypeColumn(file) ==
    [i \in DOMAIN file |-> [file[i] EXCEPT !.obj = NoColumn]]

HeaderlessFiles ==
    { WithoutObjectTypeColumn(<<RowText>>),
      WithoutObjectTypeColumn(<<RowDeal, RowText>>) }

\* row["..."].strip() at lines 154-157 raises KeyError for a key that is
\* not there and AttributeError for a None
strip_raises(row) ==
    \E field \in {row.name, row.type, row.opts, row.obj} :
        field \in {None, NoColumn}

SeqsUpTo(S, n) == UNION {[1..k -> S] : k \in 0..n}

Prop(obj, name, label) == [obj |-> obj, name |-> name, label |-> label]

\* a property that is already there under the name the run derives
ExistingProp == Prop(S_contacts, <<"a", "_", "b">>, N_A_b)

\* a property with the same label under another internal name
LegacyProp == Prop(S_contacts, <<"l", "e", "g">>, N_A_b)

Remote(groups, props) == [groups |-> groups, props |-> props]

RemotePool ==
    { Remote({}, {}),
      Remote({S_contacts}, {ExistingProp}),
      Remote({S_contacts, S_deals}, {LegacyProp}) }

NoPayload == [name |-> <<>>]

NoRow == [name |-> <<>>, type |-> <<>>, opts |-> <<>>, slug |-> <<>>,
          payload |-> NoPayload]

NoCache == [s \in {} |-> FALSE]

\* os.environ.get gives None for a variable that is not set
Environment(set, value) == [set |-> set, value |-> value]

TokenPool ==
    { Environment(FALSE, <<>>),
      Environment(TRUE, <<>>),
      Environment(TRUE, <<"t", "o", "k">>) }

\* a plausible slip: only a missing variable is refused (is None)
has_access_token_not_none(env) == env.set

\* the negation of "not ACCESS_TOKEN": the variable is set and not empty
has_access_token(env) == env.set /\ env.value # <<>>

InitReconciler(rowSeqs, remotes) ==
    /\ token \in TokenPool
    /\ pc = "startup"
    /\ run = 1
    /\ rows \in rowSeqs
    /\ cursor = 1
    /\ cur = NoRow
    /\ created = <<>>
    /\ skipped = <<>>
    /\ errors = <<>>
    /\ group_checked = NoCache
    /\ summary = <<>>
    /\ \E r \in remotes : remoteGroups = r.groups /\ remoteProps = r.props
    /\ reqlog = <<>>
    /\ outcome = <<>>
    /\ prevOutcome = <<>>

NormIdle ==
    /\ nIn = <<>>
    /\ nOut = <<>>
    /\ nOut2 = <<>>
    /\ nPc = "idle"

Init ==
    /\ InitReconciler(SeqsUpTo(RowPool, MaxRows) \cup HeaderlessFiles, RemotePool)
    /\ NormIdle

(***************************************************************************)
(* The program, one action per step of the script.                         *)
(***************************************************************************)
\* requests.get for the two lookups, requests.post for the two creations
HttpMethod(op) ==
    IF op \in {"listGroups", "propertyExists"} THEN "GET" ELSE "POST"

Request(op, object_type_api, arg, answer) ==
    [row |-> cursor, op |-> op, method |-> HttpMethod(op),
     obj |-> object_type_api, arg |-> arg, answer |-> answer]

\* a plausible slip: the type is looked up before the group is ensured, so
\* that a row of unknown type goes straight to its rejection
position_after_object_type_type_first(prop_type_raw) ==
    IF prop_type_raw \in DOMAIN TYPE_MAPPING THEN "ensure" ELSE "type"

\* line 166 follows line 164: whatever its type, a row whose object type is
\* resolved goes on to the group check, the type lookup comes at line 177
position_after_object_type(prop_type_raw) == "ensure"

\* a plausible slip: a name already in the list is not appended again
EndRow_dedup(list, original_prop_name) ==
    LET add(l) == IF original_prop_name \in Range(l) THEN l
                  ELSE Append(l, original_prop_name)
    IN  /\ created' = IF list = "created" THEN add(created) ELSE created
        /\ skipped' = IF list = "skipped" THEN add(skipped) ELSE skipped
        /\ errors' = IF list = "errors" THEN add(errors) ELSE errors
        /\ outcome' = Append(outcome, list)
        /\ cursor' = cursor + 1
        /\ cur' = NoRow
        /\ pc' = "read"

\* errors.append / skipped.append / created.append followed by the next
\* iteration of the for loop
EndRow(list, original_prop_name) ==
    /\ created' = IF list = "created" THEN Append(created, original_prop_name)
                  ELSE created
    /\ skipped' = IF list = "skipped" THEN Append(skipped, original_prop_name)
                  ELSE skipped
    /\ errors' = IF list = "errors" THEN Append(errors, original_prop_name)
                 ELSE errors
    /\ outcome' = Append(outcome, list)
    /\ cursor' = cursor + 1
    /\ cur' = NoRow
    /\ pc' = "read"

\* lines 68-71, then main() and lines 142-147
Startup ==
    /\ pc = "startup"
    /\ IF ~has_access_token(token)
       THEN /\ pc' = "exited"
            /\ UNCHANGED <<created, skipped, errors, group_checked>>
       ELSE /\ pc' = "read"
            /\ created' = <<>>
            /\ skipped' = <<>>
            /\ errors' = <<>>
            /\ group_checked' = NoCache
    /\ UNCHANGED <<token, run, rows, cursor, cur, summary, remoteGroups,
                   remoteProps, reqlog, outcome, prevOutcome>>
    /\ UNCHANGED normVars

\* lines 151-164: the next row is read, its fields stripped, its object
\* type resolved; the exception of a field that cannot be stripped is
\* caught nowhere and ends the script
ReadRow ==
    /\ pc = "read"
    /\ cursor <= Len(rows)
    /\ LET row == rows[cursor]
           original_prop_name == Strip(row.name)
           prop_type_raw == Strip(row.type)
           prop_options_raw == Strip(row.opts)
           object_type_raw == Strip(row.obj)
           object_type_api == resolve_object_type(object_type_raw)
       IN  IF strip_raises(row)
           THEN /\ pc' = "malformed"
                /\ UNCHANGED <<created, skipped, errors, outcome, cursor, cur>>
           ELSE IF object_type_api = <<>>
           THEN EndRow("errors", original_prop_name)
           ELSE /\ cur' = [name |-> original_prop_name,
                           type |-> prop_type_raw,
                           opts |-> prop_options_raw,
                           slug |-> object_type_api,
                           payload |-> NoPayload]
                /\ pc' = position_after_object_type(prop_type_raw)
                /\ UNCHANGED <<created, skipped, errors, outcome, cursor>>
    /\ UNCHANGED <<token, run, rows, group_checked, summary, remoteGroups,
                   remoteProps, reqlog, prevOutcome>>
    /\ UNCHANGED normVars

\* the state after lines 167-175, given the cache after line 172
AfterGroupCheck(gc) ==
    /\ group_checked' = gc
    /\ IF group_blocked(gc, cur.slug)
       THEN EndRow("errors", cur.name)
       ELSE /\ pc' = "type"
            /\ UNCHANGED <<created, skipped, errors, outcome, cursor, cur>>

\* lines 166-175, ensure_property_group (lines 87-117) included
EnsureGroup ==
    /\ pc = "ensure"
    /\ IF needs_group_check(group_checked, cur.slug)
       THEN \E la \in ListGroupsAnswers(cur.slug) :
              LET listed == Request("listGroups", cur.slug, GROUP_ID, la)
              IN  IF SendsCreateGroup(la)
                  THEN \E ca \in CreateGroupAnswers(cur.slug) :
                         /\ reqlog' = reqlog \o
                              <<listed,
                                Request("createGroup", cur.slug, GROUP_ID, ca)>>
                         /\ remoteGroups' =
                              IF ~ca.raised /\ ca.status \in {200, 201}
                              THEN remoteGroups \cup {cur.slug}
                              ELSE remoteGroups
                         /\ AfterGroupCheck(
                              (cur.slug :> ensure_property_group(la, ca))
                                 @@ group_checked)
                  ELSE /\ reqlog' = Append(reqlog, listed)
                       /\ UNCHANGED remoteGroups
                       /\ AfterGroupCheck(
                            (cur.slug :> ensure_property_group(la, Raised))
                               @@ group_checked)
       ELSE /\ UNCHANGED <<reqlog, remoteGroups>>
            /\ AfterGroupCheck(group_checked)
    /\ UNCHANGED <<token, run, rows, summary, remoteProps, prevOutcome>>
    /\ UNCHANGED normVars

\* lines 177-208: the type is looked up and the payload built
ResolveType ==
    /\ pc = "type"
    /\ IF cur.type \notin DOMAIN TYPE_MAPPING
       THEN EndRow("errors", cur.name)
       ELSE /\ cur' = [cur EXCEPT
                         !.payload = build_payload(cur.name, cur.type, cur.opts)]
            /\ pc' = "exists"
            /\ UNCHANGED <<created, skipped, errors, outcome, cursor>>
    /\ UNCHANGED <<token, run, rows, group_checked, summary, remoteGroups,
                   remoteProps, reqlog, prevOutcome>>
    /\ UNCHANGED normVars

\* lines 210-219, property_exists (lines 119-131) included; an exception
\* raised by requests.get is caught nowhere and ends the script
CheckExists ==
    /\ pc = "exists"
    /\ \E a \in GetPropertyAnswers(property_url(cur.slug, cur.payload.name)) :
         /\ reqlog' = Append(reqlog,
                Request("propertyExists",
                        property_url(cur.slug, cur.payload.name).obj,
                        property_url(cur.slug, cur.payload.name).name, a))
         /\ IF a.raised
            THEN /\ pc' = "aborted"
                 /\ UNCHANGED <<created, skipped, errors, outcome, cursor, cur>>
            ELSE LET exists == property_exists(a)
                 IN  IF exists = "None" THEN EndRow("errors", cur.name)
                     ELSE IF exists = "True" THEN EndRow("skipped", cur.name)
                     ELSE /\ pc' = "create"
                          /\ UNCHANGED <<created, skipped, errors, outcome,
                                         cursor, cur>>
    /\ UNCHANGED <<token, run, rows, group_checked, summary, remoteGroups,
                   remoteProps, prevOutcome>>
    /\ UNCHANGED normVars

\* lines 221-237, create_property (lines 133-139) included; an exception
\* raised by requests.post is caught nowhere and ends the script
CreateProperty ==
    /\ pc = "create"
    /\ \E a \in PostPropertyAnswers(cur.slug, cur.payload) :
         /\ reqlog' = Append(reqlog,
                Request("createProperty", cur.slug, cur.payload, a))
         /\ remoteProps' =
              IF ~a.raised /\ a.status \in {200, 201}
              THEN remoteProps \cup
                     {Prop(cur.slug, cur.payload.name, cur.payload.label)}
              ELSE remoteProps
         /\ IF a.raised
            THEN /\ pc' = "aborted"
                 /\ UNCHANGED <<created, skipped, errors, outcome, cursor, cur>>
            ELSE EndRow(classify_create_response(a), cur.name)
    /\ UNCHANGED <<token, run, rows, group_checked, summary, remoteGroups,
                   prevOutcome>>
    /\ UNCHANGED normVars

\* lines 239-243: the loop is over and the summary is logged
Summary ==
    /\ pc = "read"
    /\ cursor > Len(rows)
    /\ summary' = Append(summary, [created |-> created, skipped |-> skipped,
                                   errors |-> errors])
    /\ pc' = "done"
    /\ UNCHANGED <<token, run, rows, cursor, cur, created, skipped, errors,
                   group_checked, remoteGroups, remoteProps, reqlog, outcome,
                   prevOutcome>>
    /\ UNCHANGED normVars

Next ==
    \/ Startup
    \/ ReadRow
    \/ EnsureGroup
    \/ ResolveType
    \/ CheckExists
    \/ CreateProperty
    \/ Summary

Spec == Init /\ [][Next]_vars

(***************************************************************************)
(* Two consecutive executions of the script on the same file against the   *)
(* same remote schema.  The second process starts from scratch: nothing    *)
(* but the remote schema survives the first, however the first ended       *)
(* (summary logged, traceback, or exit for want of a token).               *)
(***************************************************************************)
MaxRerunRows == 2

Rerun ==
    /\ pc \in {"done", "aborted", "malformed", "exited"}
    /\ run = 1
    /\ run' = 2
    /\ pc' = "startup"
    /\ cursor' = 1
    /\ cur' = NoRow
    /\ created' = <<>>
    /\ skipped' = <<>>
    /\ errors' = <<>>
    /\ group_checked' = NoCache
    /\ summary' = <<>>
    /\ reqlog' = <<>>
    /\ outcome' = <<>>
    /\ prevOutcome' = outcome
    /\ UNCHANGED <<token, rows, remoteGroups, remoteProps>>
    /\ UNCHANGED normVars

InitTwice ==
    /\ InitReconciler(SeqsUpTo(RowPool, MaxRerunRows), RemotePool)
    /\ NormIdle

NextTwice ==
    \/ Next
    \/ Rerun

SpecTwice == InitTwice /\ [][NextTwice]_vars

(***************************************************************************)
(* One batch with a row for each way a row can end.                        *)
(***************************************************************************)
N_Orphan == <<"O", "r", "p", "h">>

N_Odd == <<"O", "d", "d">>

N_New == <<"N", "e", "w">>

N_Dup == <<"D", "u", "p">>

N_Amb == <<"A", "m", "b">>

BatchRows ==
    << Row(N_Orphan, K_Text, <<>>, <<>>),
       Row(N_Odd, K_Bogus, <<>>, S_Contact),
       Row(N_A_b, K_Text, <<>>, S_Contact),
       Row(N_New, K_Number, <<>>, S_Contact),
       Row(N_Dup, K_Text, <<>>, S_Contact),
       Row(N_Amb, K_Date_Picker, <<>>, S_Company) >>

Reverse(s) == [i \in DOMAIN s |-> s[Len(s) + 1 - i]]

Rotate(s, k) == [i \in DOMAIN s |-> s[((i + k - 1) % Len(s)) + 1]]

BatchOrders ==
    {Rotate(BatchRows, k) : k \in 0..(Len(BatchRows) - 1)}
        \cup {Reverse(BatchRows)}

BatchRemote ==
    Remote({S_contacts},
           {ExistingProp, Prop(S_contacts, <<"l", "e", "g">>, N_Dup)})

InitBatch ==
    /\ InitReconciler(BatchOrders, {BatchRemote})
    /\ NormIdle

SpecBatch == InitBatch /\ [][Next]_vars

(***************************************************************************)
(* The name normalizer on its own: it is applied to an input string and    *)
(* then to its own result.                                                 *)
(***************************************************************************)
NormAlphabet == {"A", "b", "7", " ", "!", "_"}

LeadSource ==
    <<"L", "e", "a", "d", " ", "S", "o", "u", "r", "c", "e", "!", "!", " ",
      "2", "0", "2", "4">>

NormInputs == SeqsUpTo(NormAlphabet, MaxLen) \cup {LeadSource}

InitNorm ==
    /\ token = Environment(TRUE, <<"t", "o", "k">>)
    /\ pc = "idle"
    /\ run = 1
    /\ rows = <<>>
    /\ cursor = 1
    /\ cur = NoRow
    /\ created = <<>>
    /\ skipped = <<>>
    /\ errors = <<>>
    /\ group_checked = NoCache
    /\ summary = <<>>
    /\ remoteGroups = {}
    /\ remoteProps = {}
    /\ reqlog = <<>>
    /\ outcome = <<>>
    /\ prevOutcome = <<>>
    /\ nIn \in NormInputs
    /\ nOut = <<>>
    /\ nOut2 = <<>>
    /\ nPc = "input"

NormalizeOnce ==
    /\ nPc = "input"
    /\ nOut' = generate_api_property_name(nIn)
    /\ nPc' = "once"
    /\ UNCHANGED <<nIn, nOut2>>
    /\ UNCHANGED reconcilerVars

NormalizeAgain ==
    /\ nPc = "once"
    /\ nOut2' = generate_api_property_name(nOut)
    /\ nPc' = "twice"
    /\ UNCHANGED <<nIn, nOut>>
    /\ UNCHANGED reconcilerVars

NextNorm ==
    \/ NormalizeOnce
    \/ NormalizeAgain

SpecNorm == InitNorm /\ [][NextNorm]_vars

(***************************************************************************)
(* Vocabulary of the properties.                                           *)
(***************************************************************************)
\* the rows whose iteration is over
Processed == DOMAIN outcome

\* positions in the request history of the requests of kind op made while
\* row i was the current row
ReqIdx(i, op) ==
    {k \in DOMAIN reqlog : reqlog[k].row = i /\ reqlog[k].op = op}

\* positions of the requests of kind op sent for an object type
ReqIdxOfType(object_type_api, op) ==
    {k \in DOMAIN reqlog : reqlog[k].obj = object_type_api /\ reqlog[k].op = op}

NameOf(i) == Strip(rows[i].name)

TypeOf(i) == Strip(rows[i].type)

SlugOf(i) == resolve_object_type(Strip(rows[i].obj))

GroupFailed(object_type_api) ==
    /\ object_type_api \in DOMAIN group_checked
    /\ ~group_checked[object_type_api]

GroupEnsured(object_type_api) ==
    /\ object_type_api \in DOMAIN group_checked
    /\ group_checked[object_type_api]

\* the names of the processed rows that went to one list, in row order
RECURSIVE NamesUpTo(_, _)
NamesUpTo(list, n) ==
    IF n = 0 THEN <<>>
    ELSE IF outcome[n] = list
         THEN Append(NamesUpTo(list, n - 1), NameOf(n))
         ELSE NamesUpTo(list, n - 1)

NamesWith(list) == NamesUpTo(list, Len(outcome))

\* the three lists hold exactly the rows the history says they hold
ListsAreTheOutcomes ==
    /\ created = NamesWith("created")
    /\ skipped = NamesWith("skipped")
    /\ errors = NamesWith("errors")

\* every answer received to a request made for row i, and to the group
\* requests of its object type, followed from the remote schema
AnsweredFromSchema(i) ==
    \A k \in DOMAIN reqlog :
        ( \/ reqlog[k].row = i
          \/ /\ reqlog[k].op \in {"listGroups", "createGroup"}
             /\ reqlog[k].obj = SlugOf(i) )
        => ~reqlog[k].answer.fault

(***************************************************************************)
(* C1.  Idempotence as stated: after the second of two consecutive runs    *)
(* on the same rows every row is in skipped, and created and errors are    *)
(* empty.                                                                  *)
(***************************************************************************)
C1_SecondRunAllSkipped ==
    (run = 2 /\ pc = "done") =>
        /\ created = <<>>
        /\ errors = <<>>
        /\ Len(skipped) = Len(rows)

(***************************************************************************)
(* C1, amended.  Whatever way the first run ended, a row that it put in    *)
(* created or skipped, and for which the second run's own requests and     *)
(* the group requests of its object type are answered from the remote      *)
(* schema, is in skipped as soon as the second run has finished it, never  *)
(* in created or errors.  It is in no list only while the second run has   *)
(* not finished it, which is for good when the second run ended with an    *)
(* uncaught exception at an earlier row.  Rows the first run put in        *)
(* errors or did not reach are not covered.                                *)
(***************************************************************************)
C1_SettledRowsAreSkippedAgain ==
    run = 2 =>
        /\ ListsAreTheOutcomes
        /\ \A i \in DOMAIN rows :
              ( /\ i \in DOMAIN prevOutcome
                /\ prevOutcome[i] \in {"created", "skipped"}
                /\ AnsweredFromSchema(i) )
              => /\ i \in Processed => outcome[i] = "skipped"
                 /\ i \notin Processed =>
                       \/ pc \in {"startup", "read", "ensure", "type", "exists", "create"}
                       \/ /\ pc = "aborted"
                          /\ reqlog[Len(reqlog)].row <= i
                          /\ reqlog[Len(reqlog)].answer.raised
                          /\ reqlog[Len(reqlog)].op \in {"propertyExists", "createProperty"}

C1_Witness ==
    /\ run = 2
    /\ pc = "done"
    /\ DOMAIN prevOutcome = DOMAIN rows
    /\ \E i \in Processed :
          /\ prevOutcome[i] = "created"
          /\ AnsweredFromSchema(i)
          /\ outcome[i] = "skipped"
    /\ \E j \in Processed : prevOutcome[j] = "errors" /\ outcome[j] = "errors"

(***************************************************************************)
(* C2.  A network error in property_exists or create_property does not     *)
(* abort the run: no exception leaves either function, and the row it      *)
(* happened for is in errors once its iteration is over.                   *)
(***************************************************************************)
C2_NetworkErrorsDoNotAbort ==
    /\ pc # "aborted"
    /\ \A k \in DOMAIN reqlog :
          ( /\ reqlog[k].op \in {"propertyExists", "createProperty"}
            /\ reqlog[k].answer.raised
            /\ reqlog[k].row \in Processed )
          => outcome[reqlog[k].row] = "errors"

(***************************************************************************)
(* C3.  When the run is over every row has been appended to exactly one    *)
(* of the three lists, and no row has had more than one propertyExists or  *)
(* more than one createProperty call.                                      *)
(***************************************************************************)
C3_EveryRowOneOutcome ==
    /\ pc \in {"done", "aborted"} =>
          /\ Len(created) + Len(skipped) + Len(errors) = Len(rows)
          /\ ListsAreTheOutcomes
    /\ \A i \in DOMAIN rows :
          /\ Cardinality(ReqIdx(i, "propertyExists")) <= 1
          /\ Cardinality(ReqIdx(i, "createProperty")) <= 1

(***************************************************************************)
(* C4.  Once the group could not be ensured for an object type, every row  *)
(* of that type is put in errors without a propertyExists or               *)
(* createProperty call; rows of object types whose group was ensured       *)
(* still reach the existence check, and the failure itself never ends      *)
(* the script.                                                             *)
(***************************************************************************)
C4_GroupFailureIsPerObjectType ==
    /\ ListsAreTheOutcomes
    /\ \A i \in Processed :
          /\ GroupFailed(SlugOf(i)) =>
                /\ outcome[i] = "errors"
                /\ ReqIdx(i, "propertyExists") = {}
                /\ ReqIdx(i, "createProperty") = {}
          /\ (GroupEnsured(SlugOf(i)) /\ TypeOf(i) \in DOMAIN TYPE_MAPPING) =>
                ReqIdx(i, "propertyExists") # {}
    /\ \A k \in DOMAIN reqlog :
          reqlog[k].op \in {"listGroups", "createGroup"} =>
              ~(pc = "aborted" /\ k = Len(reqlog))

C4_Witness ==
    /\ pc = "done"
    /\ \E i, j, k \in Processed :
          /\ i < j
          /\ i < k
          /\ SlugOf(i) = SlugOf(j)
          /\ GroupFailed(SlugOf(i))
          /\ reqlog[1].answer.raised
          /\ outcome[j] = "errors"
          /\ SlugOf(k) # SlugOf(i)
          /\ outcome[k] = "created"

(***************************************************************************)
(* C5.  Within one run the group listing is requested at most once per     *)
(* object type, whatever the first attempt returned: a cached False is     *)
(* not tried again.                                                        *)
(***************************************************************************)
C5_GroupEnsuredOncePerType ==
    \A i \in DOMAIN rows :
        /\ Cardinality(ReqIdxOfType(SlugOf(i), "listGroups")) <= 1
        /\ Cardinality(ReqIdxOfType(SlugOf(i), "createGroup")) <= 1

C5_Witness ==
    \E i, j \in Processed :
        /\ i < j
        /\ SlugOf(i) = SlugOf(j)
        /\ rows[i].obj # rows[j].obj
        /\ GroupFailed(SlugOf(i))
        /\ Cardinality(ReqIdxOfType(SlugOf(i), "listGroups")) = 1

(***************************************************************************)
(* C6.  createProperty is sent for a row only after propertyExists for     *)
(* that row's object type and normalized name answered 404 in the same     *)
(* run; a row whose existence check answered 200 is in skipped, one whose  *)
(* check answered neither 200 nor 404 is in errors, and for neither is     *)
(* createProperty ever sent.                                               *)
(***************************************************************************)
C6_ExistenceBeforeCreation ==
    /\ ListsAreTheOutcomes
    /\ \A k \in DOMAIN reqlog :
          reqlog[k].op = "createProperty" =>
              \E j \in 1..(k - 1) :
                  /\ reqlog[j].op = "propertyExists"
                  /\ reqlog[j].row = reqlog[k].row
                  /\ reqlog[j].obj = SlugOf(reqlog[k].row)
                  /\ reqlog[k].obj = SlugOf(reqlog[k].row)
                  /\ reqlog[j].arg = generate_api_property_name(NameOf(reqlog[k].row))
                  /\ reqlog[k].arg.name = reqlog[j].arg
                  /\ ~reqlog[j].answer.raised
                  /\ reqlog[j].answer.status = 404
    /\ \A j \in DOMAIN reqlog :
          (reqlog[j].op = "propertyExists" /\ ~reqlog[j].answer.raised) =>
              /\ reqlog[j].answer.status = 200 =>
                    /\ reqlog[j].row \in Processed
                    /\ outcome[reqlog[j].row] = "skipped"
                    /\ ReqIdx(reqlog[j].row, "createProperty") = {}
              /\ reqlog[j].answer.status \notin {200, 404} =>
                    /\ reqlog[j].row \in Processed
                    /\ outcome[reqlog[j].row] = "errors"
                    /\ ReqIdx(reqlog[j].row, "createProperty") = {}

C6_Witness ==
    /\ pc = "done"
    /\ \E i, j, k \in DOMAIN reqlog :
          /\ reqlog[i].op = "propertyExists"
          /\ reqlog[i].answer.status = 200
          /\ reqlog[j].op = "propertyExists"
          /\ reqlog[j].answer.status = 500
          /\ reqlog[k].op = "createProperty"

(***************************************************************************)
(* C7.  After createProperty returned for a row, status 200 or 201 puts    *)
(* the row in created, a failure whose body carries the subCategory        *)
(* NON_UNIQUE_PROPERTY_LABEL puts it in skipped, and every other failure   *)
(* (another subCategory, none, or a body that is not JSON) puts it in      *)
(* errors.                                                                 *)
(***************************************************************************)
IsDuplicateLabel(answer) ==
    /\ answer.body.json
    /\ "subCategory" \in DOMAIN answer.body
    /\ answer.body.subCategory = NON_UNIQUE_PROPERTY_LABEL

C7_CreationOutcome ==
    /\ ListsAreTheOutcomes
    /\ \A k \in DOMAIN reqlog :
          (reqlog[k].op = "createProperty" /\ ~reqlog[k].answer.raised) =>
              /\ reqlog[k].row \in Processed
              /\ reqlog[k].answer.status \in {200, 201} =>
                    outcome[reqlog[k].row] = "created"
              /\ ( /\ reqlog[k].answer.status \notin {200, 201}
                   /\ IsDuplicateLabel(reqlog[k].answer) ) =>
                    outcome[reqlog[k].row] = "skipped"
              /\ ( /\ reqlog[k].answer.status \notin {200, 201}
                   /\ ~IsDuplicateLabel(reqlog[k].answer) ) =>
                    outcome[reqlog[k].row] = "errors"

C7_Witness ==
    /\ pc = "done"
    /\ \E i, j, k \in DOMAIN reqlog :
          /\ reqlog[i].op = "createProperty"
          /\ reqlog[i].answer.status = 200
          /\ outcome[reqlog[i].row] = "created"
          /\ reqlog[j].op = "createProperty"
          /\ ~reqlog[j].answer.raised
          /\ IsDuplicateLabel(reqlog[j].answer)
          /\ outcome[reqlog[j].row] = "skipped"
          /\ reqlog[k].op = "createProperty"
          /\ ~reqlog[k].answer.raised
          /\ ~reqlog[k].answer.body.json
          /\ outcome[reqlog[k].row] = "errors"

(***************************************************************************)
(* C8.  The name normalizer is idempotent: applying it to its own result   *)
(* changes nothing.                                                        *)
(***************************************************************************)
C8_NormalizeIdempotent ==
    nPc = "twice" => nOut2 = nOut

(***************************************************************************)
(* C9.  The result of the name normalizer holds no character outside       *)
(* [a-z0-9_]; the empty string gives the empty string and                  *)
(* "Lead Source!! 2024" gives "lead_source_2024"; the letters and digits   *)
(* of the input are kept in order and lowercased, every other character    *)
(* but the space is dropped, the result neither starts nor ends with an    *)
(* underscore, and it has one underscore for each space that lies between  *)
(* the first and the last letter or digit of the input.                    *)
(***************************************************************************)
OutputAlphabet == LowerChars \cup DigitChars \cup {"_"}

IsAlnum(c) == c \in UpperChars \cup LowerChars \cup DigitChars

IsNotUnderscore(c) == c # "_"

AlnumPositions(s) == {i \in DOMAIN s : IsAlnum(s[i])}

\* the spaces of s that lie between two letters or digits
InnerSpaces(s) ==
    {i \in DOMAIN s :
        /\ s[i] = " "
        /\ \E a, b \in AlnumPositions(s) : a < i /\ i < b}

lead_source_2024 ==
    <<"l", "e", "a", "d", "_", "s", "o", "u", "r", "c", "e", "_",
      "2", "0", "2", "4">>

C9_NormalizeOutput ==
    nPc # "input" =>
        /\ Range(nOut) \subseteq OutputAlphabet
        /\ nIn = <<>> => nOut = <<>>
        /\ nIn = LeadSource => nOut = lead_source_2024
        /\ SelectSeq(nOut, IsNotUnderscore) = Lower(SelectSeq(nIn, IsAlnum))
        /\ nOut # <<>> => (nOut[1] # "_" /\ nOut[Len(nOut)] # "_")
        /\ Cardinality({i \in DOMAIN nOut : nOut[i] = "_"})
              = Cardinality(InnerSpaces(nIn))

C9_Witness ==
    /\ nPc = "once"
    /\ nIn = LeadSource
    /\ nOut = lead_source_2024

(***************************************************************************)
(* C10.  For a batch with exactly one row of each kind (no object type,    *)
(* unknown property type, property already there, new property, creation   *)
(* refused for a duplicate label, existence check answered ambiguously)    *)
(* the summary holds three names in errors (no object type, unknown        *)
(* type, ambiguous), two in skipped (already there, duplicate label) and   *)
(* one in created (new).                                                   *)
(***************************************************************************)
KindNoObject(i) == SlugOf(i) = <<>>

KindUnknownType(i) ==
    /\ GroupEnsured(SlugOf(i))
    /\ TypeOf(i) \notin DOMAIN TYPE_MAPPING

KindExisting(i) ==
    \E k \in ReqIdx(i, "propertyExists") :
        ~reqlog[k].answer.raised /\ reqlog[k].answer.status = 200

KindAmbiguous(i) ==
    \E k \in ReqIdx(i, "propertyExists") :
        ~reqlog[k].answer.raised /\ reqlog[k].answer.status \notin {200, 404}

KindNew(i) ==
    \E k \in ReqIdx(i, "createProperty") :
        ~reqlog[k].answer.raised /\ reqlog[k].answer.status \in {200, 201}

KindDuplicateLabel(i) ==
    \E k \in ReqIdx(i, "createProperty") :
        /\ ~reqlog[k].answer.raised
        /\ reqlog[k].answer.status \notin {200, 201}
        /\ IsDuplicateLabel(reqlog[k].answer)

OneRowOfEachKind ==
    /\ Len(rows) = 6
    /\ Cardinality({i \in DOMAIN rows : KindNoObject(i)}) = 1
    /\ Cardinality({i \in DOMAIN rows : KindUnknownType(i)}) = 1
    /\ Cardinality({i \in DOMAIN rows : KindExisting(i)}) = 1
    /\ Cardinality({i \in DOMAIN rows : KindAmbiguous(i)}) = 1
    /\ Cardinality({i \in DOMAIN rows : KindNew(i)}) = 1
    /\ Cardinality({i \in DOMAIN rows : KindDuplicateLabel(i)}) = 1

C10_BatchCoverage ==
    (pc = "done" /\ OneRowOfEachKind) =>
        /\ Len(summary) = 1
        /\ Len(summary[1].errors) = 3
        /\ Len(summary[1].skipped) = 2
        /\ Len(summary[1].created) = 1
        /\ Range(summary[1].errors) =
              {NameOf(i) : i \in {r \in DOMAIN rows :
                  KindNoObject(r) \/ KindUnknownType(r) \/ KindAmbiguous(r)}}
        /\ Range(summary[1].skipped) =
              {NameOf(i) : i \in {r \in DOMAIN rows :
                  KindExisting(r) \/ KindDuplicateLabel(r)}}
        /\ Range(summary[1].created) =
              {NameOf(i) : i \in {r \in DOMAIN rows : KindNew(r)}}

C10_Witness ==
    /\ pc = "done"
    /\ OneRowOfEachKind
    /\ Len(summary) = 1
    /\ Len(summary[1].errors) = 3

(***************************************************************************)
(* C11.  A row whose object type is empty is put in errors before any      *)
(* request is made for it; Contact, Company and Deal resolve to contacts,  *)
(* companies and deals; every other non-empty name is used unchanged as    *)
(* the object type of the API and the row goes on to the group step.       *)
(***************************************************************************)
\* the rows the for loop has taken from the reader
RowsRead ==
    {i \in DOMAIN rows :
        i < cursor \/ (i = cursor /\ pc \notin {"startup", "read", "exited", "malformed"})}

\* the object type the documentation promises for a name that is not empty
DocumentedSlug(object_type_raw) ==
    IF object_type_raw = S_Contact THEN S_contacts
    ELSE IF object_type_raw = S_Company THEN S_companies
    ELSE IF object_type_raw = S_Deal THEN S_deals
    ELSE object_type_raw

C11_ObjectTypeResolution ==
    /\ resolve_object_type(S_Company) = S_companies
    /\ \A i \in RowsRead :
          LET object_type_raw == Strip(rows[i].obj)
          IN  /\ object_type_raw = <<>> =>
                    /\ i \in Processed
                    /\ outcome[i] = "errors"
                    /\ \A k \in DOMAIN reqlog : reqlog[k].row # i
              /\ object_type_raw # <<>> =>
                    /\ DocumentedSlug(object_type_raw) \in DOMAIN group_checked
                          \/ (i = cursor /\ pc = "ensure")
                    /\ (i = cursor /\ pc \in {"ensure", "type", "exists", "create"})
                          => cur.slug = DocumentedSlug(object_type_raw)
                    /\ \A k \in DOMAIN reqlog :
                          reqlog[k].row = i =>
                              reqlog[k].obj = DocumentedSlug(object_type_raw)

C11_Witness ==
    /\ pc = "done"
    /\ ListsAreTheOutcomes
    /\ \E i, j, k \in Processed :
          /\ Strip(rows[i].obj) = <<>>
          /\ outcome[i] = "errors"
          /\ Strip(rows[j].obj) = S_contacts
          /\ i < j
          /\ \E r \in ReqIdx(j, "listGroups") : reqlog[r].obj = S_contacts
          /\ Strip(rows[k].obj) = S_Deal
          /\ \E r \in ReqIdx(k, "propertyExists") : reqlog[r].obj = S_deals

(***************************************************************************)
(* C12.  Each of the three lists holds the original names of the rows      *)
(* that went to it, in row order, a name as many times as rows carried     *)
(* it, nothing sorted; the summary is logged exactly once: never more      *)
(* than once, only after the last row, with the three lists as they are,   *)
(* and every run that started on the rows and is over has logged it.       *)
(***************************************************************************)
\* the rows that went to one list, in row order
RowsWith(list) == {i \in Processed : outcome[i] = list}

\* l lists the names of the rows of the set, each once per row, in row order
InRowOrder(l, rowset) ==
    /\ Len(l) = Cardinality(rowset)
    /\ \A n \in DOMAIN l :
          \E i \in rowset :
              /\ Cardinality({j \in rowset : j < i}) = n - 1
              /\ l[n] = Strip(rows[i].name)

C12_ReporterOrdering ==
    /\ Len(outcome) = Cardinality(RowsRead \cap Processed)
    /\ InRowOrder(created, RowsWith("created"))
    /\ InRowOrder(skipped, RowsWith("skipped"))
    /\ InRowOrder(errors, RowsWith("errors"))
    /\ Len(summary) <= 1
    /\ pc = "done" <=> Len(summary) = 1
    /\ pc \in {"done", "aborted", "malformed"} => Len(summary) = 1
    /\ Len(summary) = 1 =>
          /\ Processed = DOMAIN rows
          /\ summary[1].created = created
          /\ summary[1].skipped = skipped
          /\ summary[1].errors = errors

\* the same name twice in one list, and a list that is not in sorted order
C12_Witness ==
    /\ pc = "done"
    /\ Len(summary) = 1
    /\ \E a, b \in DOMAIN summary[1].errors :
          a < b /\ summary[1].errors[a] = summary[1].errors[b]
    /\ summary[1].errors[1] = N_Ab_bang
    /\ summary[1].errors[2] = N_A_b

(***************************************************************************)
(* One-row files over every property type and over every short option      *)
(* text, against a remote schema that has the group for contacts and no    *)
(* property.                                                               *)
(***************************************************************************)
MaxOptLen == 4

OptAlphabet == {"R", "b", " ", ","}

RedBlueGreen ==
    <<"R", "e", "d", ",", " ", "B", "l", "u", "e", ",", " ", " ", "G", "r", "e", "e", "n">>

RedBlueGreenComma == RedBlueGreen \o <<",">>

\* a piece that is a vertical tab only
O_x_vt_y == <<"x", ",", "", ",", "y">>

\* a piece with a unit separator and a space after it
O_a_b_c == <<"a", ",", " ", "b", "", " ", ",", "c">>

\* a letter above "z", and a vertical tab inside a piece
O_accented == <<"É", "", "T", ",", "Þ">>

OptInputs ==
    SeqsUpTo(OptAlphabet, MaxOptLen)
        \cup {RedBlueGreen, RedBlueGreenComma, O_x_vt_y, O_a_b_c, O_accented}

K_text_lowercase == <<"t", "e", "x", "t">>

PayloadTypes == DOMAIN TYPE_MAPPING \cup {K_Bogus, K_text_lowercase}

N_VIP_Status ==
    <<"V", "I", "P", " ", "S", "t", "a", "t", "u", "s">>

PayloadFiles ==
    {<<Row(N_VIP_Status, t, o, S_Contact)>> : t \in PayloadTypes, o \in OptInputs}

PayloadRemote == Remote({S_contacts}, {})

InitPayload ==
    /\ InitReconciler(PayloadFiles, {PayloadRemote})
    /\ NormIdle

SpecPayload == InitPayload /\ [][Next]_vars

(***************************************************************************)
(* C13.  For a Dropdown, Multiple Checkboxes or Single Checkbox row with   *)
(* a non-empty option text the payload's options are the pieces between    *)
(* the commas, trimmed, the empty ones dropped, in input order, repeated   *)
(* ones kept, each with the piece as label and the piece lowercased with   *)
(* spaces turned into underscores as value; "Red, Blue,  Green" gives      *)
(* red, blue, green and a trailing comma adds nothing.  For every other    *)
(* type, and for an empty option text, the payload has no options key.     *)
(***************************************************************************)
\* 0, the positions of the commas, and the position after the last character
Cuts(s) == {0, Len(s) + 1} \cup {i \in DOMAIN s : s[i] = ","}

NextCut(s, a) == CHOOSE b \in Cuts(s) : b > a /\ \A c \in Cuts(s) : c > a => b <= c

PieceAfter(s, a) == Strip(SubSeq(s, a + 1, NextCut(s, a) - 1))

\* the cuts that are followed by a piece that is not blank
TokenStarts(s) == {a \in Cuts(s) : a <= Len(s) /\ PieceAfter(s, a) # <<>>}

ThreeColours ==
    << [label |-> <<"R", "e", "d">>, value |-> <<"r", "e", "d">>],
       [label |-> <<"B", "l", "u", "e">>, value |-> <<"b", "l", "u", "e">>],
       [label |-> <<"G", "r", "e", "e", "n">>, value |-> <<"g", "r", "e", "e", "n">>] >>

OptionsAsDocumented(payload, i) ==
    LET raw == Strip(rows[i].opts)
    IN  IF /\ TypeOf(i) \in {K_Dropdown, K_Multiple_Checkboxes, K_Single_Checkbox}
           /\ raw # <<>>
        THEN /\ "options" \in DOMAIN payload
             /\ Len(payload.options) = Cardinality(TokenStarts(raw))
             /\ \A n \in DOMAIN payload.options :
                   /\ DOMAIN payload.options[n] = {"label", "value"}
                   /\ \E a \in TokenStarts(raw) :
                         /\ Cardinality({b \in TokenStarts(raw) : b < a}) = n - 1
                         /\ payload.options[n].label = PieceAfter(raw, a)
                   /\ payload.options[n].value =
                         ReplaceSpaces(Lower(payload.options[n].label))
             /\ raw \in {RedBlueGreen, RedBlueGreenComma} =>
                   payload.options = ThreeColours
        ELSE "options" \notin DOMAIN payload

C13_OptionParsing ==
    /\ pc \in {"exists", "create"} => OptionsAsDocumented(cur.payload, cursor)
    /\ \A k \in DOMAIN reqlog :
          reqlog[k].op = "createProperty" =>
              OptionsAsDocumented(reqlog[k].arg, reqlog[k].row)

C13_Witness ==
    /\ pc = "done"
    /\ Strip(rows[1].opts) = RedBlueGreenComma
    /\ TypeOf(1) = K_Dropdown
    /\ \E k \in ReqIdx(1, "createProperty") : reqlog[k].arg.options = ThreeColours

(***************************************************************************)
(* C14.  The payload sent for a row has the generated name as name, the    *)
(* original name as label, api_imported_properties as groupName, the type  *)
(* and fieldType the type table documents for the row's type, and a        *)
(* multiple key only for a type documented as multiple.  The one row       *)
(* {VIP Status, Single Checkbox, no options, Contact}, group present,      *)
(* property absent, creation accepted, sends name vip_status, type bool,   *)
(* fieldType booleancheckbox and no options key to contacts, and the row   *)
(* is in created.                                                          *)
(***************************************************************************)
\* the type table as the documentation lists it: api type, field type, multiple
DocumentedType(prop_type_raw) ==
    CASE prop_type_raw \in {K_Text, K_Single_line_Text, K_HubSpot_User}
            -> <<"string", "text", FALSE>>
      [] prop_type_raw = K_Multi_line_Text
            -> <<"string", "textarea", FALSE>>
      [] prop_type_raw \in {K_Number, K_Currency_Number, K_Unformatted_Number}
            -> <<"number", "number", FALSE>>
      [] prop_type_raw = K_Dropdown
            -> <<"enumeration", "select", FALSE>>
      [] prop_type_raw = K_Multiple_Checkboxes
            -> <<"enumeration", "select", TRUE>>
      [] prop_type_raw = K_Single_Checkbox
            -> <<"bool", "booleancheckbox", FALSE>>
      [] prop_type_raw = K_Date_Picker
            -> <<"date", "date", FALSE>>

DocumentedTypeNames ==
    {K_Text, K_Single_line_Text, K_HubSpot_User, K_Multi_line_Text, K_Number,
     K_Currency_Number, K_Unformatted_Number, K_Dropdown, K_Multiple_Checkboxes,
     K_Single_Checkbox, K_Date_Picker}

vip_status ==
    <<"v", "i", "p", "_", "s", "t", "a", "t", "u", "s">>

VipRow == Row(N_VIP_Status, K_Single_Checkbox, <<>>, S_Contact)

VipPayload ==
    [name |-> vip_status, label |-> N_VIP_Status,
     groupName |-> "api_imported_properties",
     type |-> "bool", fieldType |-> "booleancheckbox"]

PayloadAsDocumented(payload, i) ==
    /\ TypeOf(i) \in DocumentedTypeNames
    /\ payload.name = generate_api_property_name(NameOf(i))
    /\ payload.label = NameOf(i)
    /\ payload.groupName = "api_imported_properties"
    /\ payload.type = DocumentedType(TypeOf(i))[1]
    /\ payload.fieldType = DocumentedType(TypeOf(i))[2]
    /\ "multiple" \in DOMAIN payload <=> DocumentedType(TypeOf(i))[3]
    /\ "multiple" \in DOMAIN payload => payload.multiple = TRUE
    /\ DOMAIN payload \subseteq
          {"name", "label", "groupName", "type", "fieldType", "multiple", "options"}

C14_PayloadConstruction ==
    /\ pc \in {"exists", "create"} => PayloadAsDocumented(cur.payload, cursor)
    /\ \A k \in DOMAIN reqlog :
          reqlog[k].op = "createProperty" =>
              /\ PayloadAsDocumented(reqlog[k].arg, reqlog[k].row)
              /\ ( /\ rows[reqlog[k].row] = VipRow
                   /\ ~reqlog[k].answer.raised
                   /\ reqlog[k].answer.status \in {200, 201} ) =>
                    /\ reqlog[k].arg = VipPayload
                    /\ reqlog[k].obj = S_contacts
                    /\ created = <<N_VIP_Status>>
                    /\ skipped = <<>>
                    /\ errors = <<>>

C14_Witness ==
    /\ pc = "done"
    /\ rows = <<VipRow>>
    /\ Len(reqlog) = 3
    /\ reqlog[1].op = "listGroups"
    /\ reqlog[1].answer.status = 200
    /\ GROUP_ID \in reqlog[1].answer.body.results
    /\ reqlog[2].op = "propertyExists"
    /\ reqlog[2].answer.status = 404
    /\ reqlog[3].op = "createProperty"
    /\ reqlog[3].answer.status = 201
    /\ reqlog[3].arg = VipPayload
    /\ summary[1].created = <<N_VIP_Status>>

(***************************************************************************)
(* C15.  The type table has exactly the eleven documented types, each      *)
(* with its documented api type, field type and multiplicity (multiple     *)
(* only for Multiple Checkboxes); a row of any other type is put in        *)
(* errors without a propertyExists or createProperty call and without      *)
(* ending the run.                                                         *)
(***************************************************************************)
LookupAsDocumented(prop_type_raw) ==
    /\ prop_type_raw \in DOMAIN TYPE_MAPPING
    /\ TYPE_MAPPING[prop_type_raw].type = DocumentedType(prop_type_raw)[1]
    /\ TYPE_MAPPING[prop_type_raw].fieldType = DocumentedType(prop_type_raw)[2]
    /\ ( /\ "multiple" \in DOMAIN TYPE_MAPPING[prop_type_raw]
         /\ TYPE_MAPPING[prop_type_raw].multiple )
       <=> prop_type_raw = K_Multiple_Checkboxes

C15_TypeMapping ==
    /\ Cardinality(DocumentedTypeNames) = 11
    /\ DOMAIN TYPE_MAPPING = DocumentedTypeNames
    /\ \A i \in RowsRead :
          /\ TypeOf(i) \in DocumentedTypeNames => LookupAsDocumented(TypeOf(i))
          /\ TypeOf(i) \notin DocumentedTypeNames =>
                /\ TypeOf(i) \notin DOMAIN TYPE_MAPPING
                /\ ReqIdx(i, "propertyExists") = {}
                /\ ReqIdx(i, "createProperty") = {}
                /\ pc # "aborted"
                /\ pc \notin {"exists", "create"}
                /\ i \in Processed => outcome[i] = "errors"
          /\ (i = cursor /\ pc \in {"exists", "create"}) =>
                /\ cur.payload.type = DocumentedType(TypeOf(i))[1]
                /\ cur.payload.fieldType = DocumentedType(TypeOf(i))[2]

C15_Witness ==
    /\ pc = "done"
    /\ TypeOf(1) = K_text_lowercase
    /\ Len(reqlog) = 1
    /\ reqlog[1].op = "listGroups"
    /\ group_checked[S_contacts]
    /\ summary[1].errors = <<N_VIP_Status>>

(***************************************************************************)
(* C16.  No step of a run removes or rewrites a property or a group of     *)
(* the remote schema: the requests are the two lookups (GET) and the two   *)
(* creations (POST), the remote sets only grow, a property is added only   *)
(* where none of that name was, and every property the run asks to create  *)
(* is filed under api_imported_properties.                                 *)
(***************************************************************************)
NewRequests == {reqlog'[k] : k \in DOMAIN reqlog' \ DOMAIN reqlog}

C16_Step ==
    /\ remoteProps \subseteq remoteProps'
    /\ remoteGroups \subseteq remoteGroups'
    /\ \A e \in NewRequests :
          /\ e.op \in {"listGroups", "createGroup", "propertyExists", "createProperty"}
          /\ e.method \in {"GET", "POST"}
          /\ e.method = "POST" <=> e.op \in {"createGroup", "createProperty"}
          /\ e.op = "createProperty" => e.arg.groupName = "api_imported_properties"
    /\ \A g \in remoteGroups' \ remoteGroups :
          \E e \in NewRequests :
              e.op = "createGroup" /\ e.method = "POST" /\ e.obj = g
    /\ \A p \in remoteProps' \ remoteProps :
          /\ ~PropertyPresent(p.obj, p.name)
          /\ \E e \in NewRequests :
                /\ e.op = "createProperty"
                /\ e.obj = p.obj
                /\ e.arg.name = p.name
                /\ e.arg.label = p.label
                /\ e.arg.groupName = "api_imported_properties"

C16_CreateIfAbsentOnly == [][C16_Step]_vars

C16_Witness ==
    /\ pc = "done"
    /\ \E k, g \in DOMAIN reqlog :
          /\ reqlog[g].op = "createGroup"
          /\ reqlog[g].answer.status = 201
          /\ reqlog[g].obj \in remoteGroups
          /\ reqlog[k].op = "createProperty"
          /\ reqlog[k].answer.status = 201
          /\ reqlog[k].arg.groupName = "api_imported_properties"
          /\ Prop(reqlog[k].obj, reqlog[k].arg.name, reqlog[k].arg.label) \in remoteProps
    /\ ExistingProp \in remoteProps

(***************************************************************************)
(* C17.  When HUBSPOT_ACCESS_TOKEN is not set or is empty the program      *)
(* exits before a row is read and before a request is made, and no row is  *)
(* put in created, skipped or errors.                                      *)
(***************************************************************************)
C17_MissingTokenIsFatal ==
    (~token.set \/ token.value = <<>>) =>
        /\ pc \in {"startup", "exited"}
        /\ RowsRead = {}
        /\ cursor = 1
        /\ reqlog = <<>>
        /\ created = <<>>
        /\ skipped = <<>>
        /\ errors = <<>>
        /\ summary = <<>>

C17_Witness ==
    /\ pc = "exited"
    /\ token.set
    /\ token.value = <<>>
    /\ Len(rows) = 2
    /\ reqlog = <<>>

(***************************************************************************)
(* C18.  ensure_property_group never raises.  It returns True exactly      *)
(* when the listing answered 200 and either a listed group has the group   *)
(* id, and then no createGroup is sent, or none has and createGroup        *)
(* answered 200 or 201.  It returns False when the listing did not answer  *)
(* 200, and then no createGroup is sent, when createGroup answered         *)
(* anything else, and when a step raised.                                  *)
(***************************************************************************)
ListingSucceeded(answer) ==
    ~answer.raised /\ answer.status = 200 /\ answer.body.json

GroupListed(answer) ==
    ListingSucceeded(answer) /\ "api_imported_properties" \in answer.body.results

C18_EnsureGroupResult ==
    \A k \in DOMAIN reqlog :
        reqlog[k].op = "listGroups" =>
            LET s == reqlog[k].obj
                la == reqlog[k].answer
                creations == ReqIdxOfType(s, "createGroup")
            IN  /\ s \in DOMAIN group_checked
                /\ ~(pc = "aborted" /\ reqlog[Len(reqlog)].op \in {"listGroups", "createGroup"})
                /\ Cardinality(creations) <= 1
                /\ creations \subseteq {k + 1}
                /\ ~ListingSucceeded(la) => (creations = {} /\ ~group_checked[s])
                /\ GroupListed(la) => (creations = {} /\ group_checked[s])
                /\ (ListingSucceeded(la) /\ ~GroupListed(la)) =>
                      /\ creations = {k + 1}
                      /\ group_checked[s] <=>
                            ( /\ ~reqlog[k + 1].answer.raised
                              /\ reqlog[k + 1].answer.status \in {200, 201} )

C18_Witness ==
    /\ pc = "done"
    /\ \E a, b, c \in DOMAIN reqlog :
          /\ reqlog[a].op = "createGroup"
          /\ reqlog[a].answer.raised
          /\ ~group_checked[reqlog[a].obj]
          /\ reqlog[b].op = "createGroup"
          /\ reqlog[b].answer.status = 200
          /\ group_checked[reqlog[b].obj]
          /\ reqlog[c].op = "listGroups"
          /\ c < a
          /\ c < b
          /\ ListingSucceeded(reqlog[c].answer)

(***************************************************************************)
(* The script is one sequential process: whenever it has a next step it    *)
(* takes it, and every request it sends comes back with an answer or an    *)
(* exception.                                                              *)
(***************************************************************************)
SpecFair == Spec /\ WF_vars(Next)

\* the for loop goes through the file forwards, one row per iteration, and
\* an iteration that is over has left exactly its own outcome
RowsOneAtATimeInOrder ==
    [][ /\ cursor' \in {cursor, cursor + 1}
        /\ cursor' = cursor + 1 =>
              /\ DOMAIN outcome' = 1..cursor
              /\ \A i \in DOMAIN outcome : outcome'[i] = outcome[i]
        /\ cursor' = cursor => outcome' = outcome
        /\ \A k \in DOMAIN reqlog' : k > Len(reqlog) => reqlog'[k].row = cursor
      ]_vars

(***************************************************************************)
(* C19.  Termination: a run that has started on its rows goes on to        *)
(* completion, whatever the remote side answers: every row is processed    *)
(* and the summary is emitted after the last one.                          *)
(***************************************************************************)
C19_Termination ==
    (pc = "read") ~> ( /\ pc = "done"
                       /\ Processed = DOMAIN rows
                       /\ Len(summary) = 1 )

(***************************************************************************)
(* C20.  The group is ensured before the type is looked up.  A row with a  *)
(* non-empty object type that is not in the cache yet sends the group      *)
(* listing, and may create the group remotely, even when its type is not   *)
(* in the type table; such a row ends in errors and changes no remote      *)
(* property, and later rows of the same object type use the cache entry    *)
(* it left without asking again.                                           *)
(***************************************************************************)
RejectedForType(i) ==
    /\ ~strip_raises(rows[i])
    /\ SlugOf(i) # <<>>
    /\ TypeOf(i) \notin DOMAIN TYPE_MAPPING

GroupRequestsOf(log, i) ==
    {k \in DOMAIN log : log[k].row = i /\ log[k].op \in {"listGroups", "createGroup"}}

C20_Step ==
    \A i \in DOMAIN rows :
        RejectedForType(i) =>
            /\ (cursor = i /\ pc = "read") => pc' = "ensure"
            /\ (cursor = i /\ pc = "ensure" /\ SlugOf(i) \notin DOMAIN group_checked) =>
                  /\ \E k \in GroupRequestsOf(reqlog', i) :
                        /\ k = Len(reqlog) + 1
                        /\ reqlog'[k].op = "listGroups"
                        /\ reqlog'[k].obj = SlugOf(i)
                  /\ SlugOf(i) \in DOMAIN group_checked'
            /\ cursor = i => remoteProps' = remoteProps
            /\ (cursor = i /\ cursor' = i + 1) =>
                  /\ outcome'[i] = "errors"
                  /\ SlugOf(i) \in DOMAIN group_checked'
            /\ \A j \in DOMAIN rows :
                  (j > i /\ cursor = j /\ SlugOf(j) = SlugOf(i)) =>
                      /\ GroupRequestsOf(reqlog', j) = {}
                      /\ group_checked'[SlugOf(i)] = group_checked[SlugOf(i)]

C20_EnsurePrecedesTypeResolution == [][C20_Step]_vars

C20_Witness ==
    /\ pc = "done"
    /\ Len(rows) = 2
    /\ RejectedForType(1)
    /\ outcome[1] = "errors"
    /\ \E k \in GroupRequestsOf(reqlog, 1) :
          /\ reqlog[k].op = "createGroup"
          /\ ~reqlog[k].answer.raised
          /\ reqlog[k].answer.status = 200
    /\ SlugOf(1) \in remoteGroups
    /\ SlugOf(2) = SlugOf(1)
    /\ GroupRequestsOf(reqlog, 2) = {}
    /\ outcome[2] = "created"

====
